---- MODULE Spec2Model ----
(***************************************************************************)
(* Credit ledger, PayPal webhook, direct deduction and batch submission of *)
(* crav-pdf-builder, as a state machine of concurrent request handlers     *)
(* over one relational store.  Every await of the route handlers is a      *)
(* point where another handler may run.                                    *)
(***************************************************************************)
EXTENDS Integers, Sequences, FiniteSets, TLC

(***************************************************************************)
(* Bounds of the model.                                                    *)
(***************************************************************************)
\* requests the model lets arrive in one run
MaxReqs == 3
\* requests that arrive beyond RATE_LIMIT where the rate limiter is exercised
ExtraCalls == 2
\* the clock advances by RATE_WINDOW \div TicksPerWindow, up to MaxWindows windows
TicksPerWindow == 2
MaxWindows == 2
\* value of user_credits.balance of every account in the initial state
InitBalance == 5
\* files added to the BatchPDFProcessor, and its calls of processFiles
MaxFiles == 2
MaxRuns == 2
\* errors thrown by the children of the ErrorBoundary
MaxErrors == 3

\* accounts (auth.users ids) and concurrent request handlers
Users == {"u1", "u2"}
Handlers == {"h1", "h2"}

(***************************************************************************)
(* JavaScript values, as far as the handlers compute with them.            *)
(***************************************************************************)
Num(n) == [t |-> "number", v |-> n]
Undefined == [t |-> "undefined", v |-> 0]
Callable == [t |-> "function", v |-> 0]
Text == [t |-> "string", v |-> 0]
NaN == [t |-> "NaN", v |-> 0]
Null == [t |-> "null", v |-> 0]
\* the number n + 1/2, a number that is no integer
Fraction(n) == [t |-> "fraction", v |-> n]

IsNum(x) == x.t = "number"

\* members every object literal inherits from Object.prototype
ObjectPrototypeKeys ==
  {"constructor", "toString", "valueOf", "hasOwnProperty", "__proto__"}

\* table[key] of an object literal
PropertyOf(table, key) ==
  IF key \in DOMAIN table THEN Num(table[key])
  ELSE IF key \in ObjectPrototypeKeys THEN Callable
  ELSE Undefined

\* ToBoolean
Truthy(x) ==
  CASE x.t = "number" -> x.v # 0
    [] x.t = "function" -> TRUE
    [] x.t = "string" -> TRUE
    [] x.t = "fraction" -> TRUE
    [] OTHER -> FALSE

\* x || 0
OrZero(x) == IF Truthy(x) THEN x ELSE Num(0)

\* a + b : numbers add, anything else concatenates to a string
Plus(a, b) == IF IsNum(a) /\ IsNum(b) THEN Num(a.v + b.v) ELSE Text

\* a * n : a number times a length, NaN for a function operand
Times(a, n) == IF IsNum(a) THEN Num(a.v * n) ELSE NaN

\* (mutation: the comparison is turned around)
LessThanReversed(a, b) == IsNum(a) /\ IsNum(b) /\ a.v > b.v

\* a < b : false whenever an operand is NaN
LessThan(a, b) == IsNum(a) /\ IsNum(b) /\ a.v < b.v

\* JSON.stringify of a property value: a function-valued property is dropped
\* (the column is then absent from the row, i.e. NULL), NaN becomes null
Json(x) == IF x.t \in {"function", "undefined", "NaN"} THEN Null ELSE x

\* an INTEGER column accepts a JSON number; NOT NULL refuses null
IntegerNotNull(x) == IsNum(Json(x))
IntegerNullable(x) == Json(x).t \in {"number", "null"}

(***************************************************************************)
(* Program constants.                                                      *)
(***************************************************************************)
CREDIT_PACKAGES ==
  [STARTER_PLAN |-> 100, PRO_PLAN |-> 500,
   BUSINESS_PLAN |-> 2000, ENTERPRISE_PLAN |-> 10000]

CREDIT_COSTS ==
  [merge |-> 1, split |-> 1, compress |-> 1, convert |-> 2, watermark |-> 1,
   password_protect |-> 1, remove_password |-> 1, rotate |-> 1,
   extract_pages |-> 1, add_page_numbers |-> 1, ocr |-> 3]

\* credits INTEGER NOT NULL DEFAULT 0
DEFAULT_CREDITS == 0
RATE_LIMIT == 10
RATE_WINDOW == 60000
MAX_DEDUCT == 1000

(***************************************************************************)
(* State.                                                                  *)
(*                                                                         *)
(* The two routes name different columns of user_credits: the webhook      *)
(* selects and upserts `credits` (the column the migration creates), the   *)
(* batch route selects `balance`.  Both are kept, each read and written    *)
(* only where the code names it.  deductCreditsAtomic debits `credits`,    *)
(* the deduct_credits function debits `balance`; credit_transactions is    *)
(* the one ledger of both.                                                 *)
(***************************************************************************)
VARIABLES
  credits,              \* user_credits.credits, per user_id
  balance,              \* user_credits.balance, per user_id
  credit_transactions,  \* rows of credit_transactions, in insertion order
  receipts,             \* rows of receipts
  payment_logs,         \* rows of payment_logs
  batch_jobs,           \* rows of batch_jobs; a job's id is its index
  job_queue,            \* rows of job_queue (job ids)
  rateLimitMap,         \* the in-memory map of checkRateLimit
  now,                  \* Date.now()
  pc,                   \* per handler: the await it is suspended at
  req,                  \* per handler: the request it serves
  loc,                  \* per handler: its local variables
  resp,                 \* per handler: the response it gave
  nreq,                 \* requests arrived so far
  tally,                \* history: per identity, the calls of checkRateLimit
                        \* counted window by window
  env,                  \* what the run is set in: quota, the requests that
                        \* arrive; faulty, whether the database may refuse
  processor,            \* the BatchPDFProcessor component in the browser:
                        \* its state and its processFiles runs
  boundary              \* the ErrorBoundary component: its state, and the
                        \* error reports it has in flight

store == <<credits, balance, credit_transactions, receipts, payment_logs,
           batch_jobs, job_queue>>
memory == <<rateLimitMap, now, tally>>
vars == <<credits, balance, credit_transactions, receipts, payment_logs,
          batch_jobs, job_queue, rateLimitMap, now, pc, req, loc, resp, nreq,
          tally, env, processor, boundary>>
\* the components rendered in the browser
client == <<processor, boundary>>
\* the routes, their database and their process memory
server == <<store, memory, pc, req, loc, resp, nreq, env>>

(***************************************************************************)
(* Requests, responses and handler locals.                                 *)
(***************************************************************************)
\* POST /api/webhooks/paypal.  auth: PayPal's verification_status is SUCCESS
\* (FALSE also when the call to PayPal fails and no verdict is obtained);
\* shape: what the body holds ("not_json", "no_resource": no event.resource,
\* "no_amount": no resource.amount, "ok"); user, plan, cap: resource.custom_id,
\* resource.invoice_id, resource.id ("" when the payload lacks the field)
WebhookReq(auth, shape, etype, user, plan, cap) ==
  [kind |-> "webhook", auth |-> auth, shape |-> shape, event_type |-> etype,
   user |-> user, plan |-> plan, cap |-> cap,
   amount |-> 0, operation |-> "", files |-> 0, body_user |-> ""]

\* POST /api/credits/deduct.  auth: the bearer token verifies; user: its user;
\* shape: what body.amount is ("ok": the number amount, "half": the number
\* amount + 1/2, "text": a string, "missing": not there)
DeductBody(auth, user, shape, amount) ==
  [kind |-> "deduct", auth |-> auth, shape |-> shape, event_type |-> "",
   user |-> user, plan |-> "", cap |-> "",
   amount |-> amount, operation |-> "", files |-> 0, body_user |-> ""]

DeductReq(auth, user, amount) == DeductBody(auth, user, "ok", amount)

\* POST /api/batch.  operation "" and files 0 stand for a missing field
BatchReq(auth, user, operation, files) ==
  [kind |-> "batch", auth |-> auth, shape |-> "ok", event_type |-> "",
   user |-> user, plan |-> "", cap |-> "",
   amount |-> 0, operation |-> operation, files |-> files, body_user |-> ""]

\* the request r with a user id put into its body (userId / user_id), a field
\* neither handler reads
WithBodyUser(r, u) == [r EXCEPT !.body_user = u]

NoReq == WebhookReq(FALSE, "ok", "", "", "", "")

\* GET /api/batch.  shape: "list" (the user's jobs), "one" (?id=, the id in
\* amount), "operations" (?action=operations)
BatchGetReq(auth, user, shape, id) ==
  [kind |-> "jobs", auth |-> auth, shape |-> shape, event_type |-> "",
   user |-> user, plan |-> "", cap |-> "",
   amount |-> id, operation |-> "", files |-> 0, body_user |-> ""]

\* the text of the error a refused query resolves with (PostgREST's message,
\* which names tables, columns and constraints)
StorageErrorMessage == "message of the storage error"

\* the text the deduction route writes itself into its 500 response
GenericErrorMessage == "Internal server error. Please try again."

\* NextResponse.json(body, {status}); status 0: no response given yet.
\* error: the body's error text when it is a caught error's or the generic
\* one, "" otherwise (none, or another text written in the route).
\* jobs: the rows of batch_jobs the body carries (job or jobs), by their ids
Response(status) ==
  [status |-> status, required |-> Undefined, available |-> Undefined,
   credits_used |-> Undefined, remaining |-> Undefined, error |-> "",
   jobs |-> {}]

\* locals of a handler.  cur: the balance it read; add: creditsToAdd;
\* total: newTotal; cost: creditCost; job: createdJob.id.
\* History kept beside them: startBal, the stored balance when the request
\* arrived; charged, whether the ledger call of the request took effect;
\* peers, the handlers that were in flight when the request arrived;
\* limited, whether the identity had used up its rate window at arrival
Locals(peers, startBal) ==
  [cur |-> Num(0), add |-> Num(0), total |-> Num(0), cost |-> Num(0),
   job |-> 0, startBal |-> startBal, charged |-> FALSE, peers |-> peers,
   limited |-> FALSE]

\* user_id UUID REFERENCES auth.users(id): a row for no user is refused
KnownUser(u) == u \in Users

\* (mutation: a user id in the body is taken for the account)
AccountOfBody(r) == IF r.body_user # "" THEN r.body_user ELSE r.user

\* the account a deduction or a batch submission works on: user.id of
\* supabase.auth.getUser(token)
AccountOf(r) == r.user

\* the column value of the user's row of user_credits; 0 stands for no row
Stored(column, u) == IF KnownUser(u) THEN column[u] ELSE 0

Idle(h) == pc[h] \in {"idle", "done"}
InFlight == {g \in Handlers : ~Idle(g)}

\* a row of credit_transactions: amount is the signed delta; capture_id is
\* metadata.capture_id ("" for a row no payment made)
Transaction(user, amount, cap) ==
  [user_id |-> user, amount |-> amount, capture_id |-> cap]

\* the rows that account for the opening balances
OpeningEntries ==
  <<Transaction("u1", InitBalance, ""), Transaction("u2", InitBalance, "")>>

\* a run's setting: how many requests arrive, whether writes may be refused
Environment(quota, faulty) == [quota |-> quota, faulty |-> faulty]

\* the state after deployment, in the setting e
\* BatchPDFProcessor as mounted: useState([]) for files, useState(false) for
\* isProcessing.  runs: the calls of processFiles that have not returned;
\* added: the files given an id so far; started: the calls of processFiles so
\* far; completions: the calls of onProcessComplete, in order
Mounted ==
  [files |-> <<>>, isProcessing |-> FALSE, runs |-> <<>>, added |-> 0,
   started |-> 0, completions |-> <<>>]

\* this.state of the ErrorBoundary as its constructor sets it; "" stands for
\* null
InitialState == [hasError |-> FALSE, error |-> "", errorInfo |-> ""]

\* ErrorBoundary as constructed and first rendered.  shown: what render()
\* returned last; committing: between getDerivedStateFromError and
\* componentDidCatch; caught: the errors of children caught so far; reports:
\* the calls of reportError awaiting their fetch, by the error's message;
\* failed: the reports whose failure reportError caught and logged
Constructed ==
  [state |-> InitialState, shown |-> "children", committing |-> FALSE,
   caught |-> 0, reports |-> <<>>, failed |-> 0]

Start(e) ==
  /\ credits = [u \in Users |-> DEFAULT_CREDITS]
  /\ balance = [u \in Users |-> InitBalance]
  /\ credit_transactions = OpeningEntries
  /\ receipts = <<>>
  /\ payment_logs = <<>>
  /\ batch_jobs = <<>>
  /\ job_queue = <<>>
  /\ rateLimitMap = [u \in {} |-> [count |-> 0, resetAt |-> 0]]
  /\ now = 0
  /\ pc = [h \in Handlers |-> "idle"]
  /\ req = [h \in Handlers |-> NoReq]
  /\ loc = [h \in Handlers |-> Locals({}, 0)]
  /\ resp = [h \in Handlers |-> Response(0)]
  /\ nreq = 0
  /\ tally = [u \in {} |-> [anchor |-> 0, allowed |-> 0, denied |-> 0,
                             windows |-> 0, refusedBefore |-> FALSE]]
  /\ env = e
  /\ processor = Mounted
  /\ boundary = Constructed

Init == Start(Environment(MaxReqs, FALSE))

\* a request arrives at an idle handler, which runs to its first await (next)
\* or to its response
Arrive(h, r, l, next, response) ==
  /\ Idle(h)
  /\ nreq < env.quota
  /\ nreq' = nreq + 1
  /\ req' = [req EXCEPT ![h] = r]
  /\ loc' = [g \in Handlers |->
               IF g = h THEN l ELSE [loc[g] EXCEPT !.peers = @ \ {h}]]
  /\ pc' = [pc EXCEPT ![h] = next]
  /\ resp' = [resp EXCEPT ![h] = response]
  /\ UNCHANGED <<env, client>>

\* the handler resumes, runs to its next await (next) with locals l
Resume(h, l, next) ==
  /\ loc' = [loc EXCEPT ![h] = l]
  /\ pc' = [pc EXCEPT ![h] = next]
  /\ UNCHANGED <<req, resp, nreq, env, client>>

\* the handler resumes and responds
Respond(h, l, response) ==
  /\ loc' = [loc EXCEPT ![h] = l]
  /\ pc' = [pc EXCEPT ![h] = "done"]
  /\ resp' = [resp EXCEPT ![h] = response]
  /\ UNCHANGED <<req, nreq, env, client>>

(***************************************************************************)
(* POST /api/webhooks/paypal                                               *)
(***************************************************************************)
\* (mutation: the verdict of the verification is not looked at)
verifyPayPalWebhookUnchecked(r) == TRUE

\* verifyPayPalWebhook: verification_status === 'SUCCESS'; the JSON.parse of
\* the body inside its try makes it answer false for a body that is no JSON
verifyPayPalWebhook(r) == r.shape # "not_json" /\ r.auth

\* const creditsToAdd = CREDIT_PACKAGES[planId] || 0
CreditsToAdd(planId) == OrZero(PropertyOf(CREDIT_PACKAGES, planId))

\* (mutation: the test for a missing user or plan id is left out)
CompletedGuardsNoIdTest(r) ==
  IF r.shape = "no_resource" THEN "throw"
  ELSE IF r.user # "" /\ CreditsToAdd(r.plan) = Num(0) THEN "return"
  ELSE "go"

\* the guards of handlePaymentCompleted before its first query:
\* "throw" (no event.resource), "return" (a guard returned), "go"
CompletedGuards(r) ==
  IF r.shape = "no_resource" THEN "throw"
  ELSE IF r.user = "" \/ r.plan = "" THEN "return"
  ELSE IF CreditsToAdd(r.plan) = Num(0) THEN "return"
  ELSE "go"

\* handlePaymentFailed before its insert: it catches what it throws
FailedGuards(r) ==
  IF r.shape = "no_resource" THEN "return"
  ELSE IF r.user = "" THEN "return"
  ELSE IF r.shape = "no_amount" THEN "return"
  ELSE "go"

\* (mutation: the total is formed by subtracting)
NewTotalSubtracts(currentCredits, creditsToAdd) ==
  IF IsNum(creditsToAdd)
  THEN Plus(currentCredits, Num(0 - creditsToAdd.v))
  ELSE Plus(currentCredits, creditsToAdd)

\* const newTotal = currentCredits + creditsToAdd
NewTotal(currentCredits, creditsToAdd) == Plus(currentCredits, creditsToAdd)

\* await supabase.from(...)...: the promise resolves to {data, error} and the
\* handlers read no error, so a query the database refuses or cannot serve
\* passes in silence.  TRUE: the query took effect
QueryOutcomes == IF env.faulty THEN BOOLEAN ELSE {TRUE}

\* POST up to the first query of the handler it dispatches to
WebhookPost(h, r) ==
  /\ r.kind = "webhook"
  /\ LET l == [Locals(InFlight \ {h}, Stored(credits, r.user)) EXCEPT
                 !.add = CreditsToAdd(r.plan)]
         l0 == Locals(InFlight \ {h}, 0)
     IN
     IF ~verifyPayPalWebhook(r)
     THEN Arrive(h, r, l0, "done", Response(400))
     ELSE IF r.event_type = "PAYMENT.CAPTURE.COMPLETED"
     THEN CASE CompletedGuards(r) = "throw" ->
                 Arrive(h, r, l0, "done", Response(500))
            [] CompletedGuards(r) = "return" ->
                 Arrive(h, r, l0, "done", Response(200))
            [] OTHER -> Arrive(h, r, l, "wh_select", Response(0))
     ELSE IF r.event_type \in {"PAYMENT.CAPTURE.DENIED", "PAYMENT.CAPTURE.DECLINED"}
     THEN IF FailedGuards(r) = "go"
          THEN Arrive(h, r, l0, "whf_log", Response(0))
          ELSE Arrive(h, r, l0, "done", Response(200))
     ELSE Arrive(h, r, l0, "done", Response(200))
  /\ UNCHANGED <<store, memory>>

\* select('credits').eq('user_id', userId).single(); currentData?.credits || 0
WhSelectCredits(h) ==
  /\ pc[h] = "wh_select"
  /\ \E ok \in QueryOutcomes :
       LET cur == IF ok THEN OrZero(Num(Stored(credits, req[h].user)))
                  ELSE Num(0)
       IN Resume(h, [loc[h] EXCEPT !.cur = cur,
                                   !.total = NewTotal(cur, loc[h].add)],
                 "wh_upsert")
  /\ UNCHANGED <<store, memory>>

\* upsert({user_id, credits: newTotal}); a refused row is an error object the
\* handler does not look at
WhUpsertCredits(h) ==
  /\ pc[h] = "wh_upsert"
  /\ \E ok \in QueryOutcomes :
       LET written == ok /\ KnownUser(req[h].user)
                         /\ IntegerNotNull(loc[h].total)
       IN /\ credits' = IF written
                        THEN [credits EXCEPT ![req[h].user] = loc[h].total.v]
                        ELSE credits
          /\ Resume(h, [loc[h] EXCEPT !.charged = written], "wh_tx")
  /\ UNCHANGED <<balance, credit_transactions, receipts, payment_logs,
                 batch_jobs, job_queue, memory>>

\* credit_transactions.insert({user_id, amount: creditsToAdd, metadata});
\* building the row reads capture.amount.value, a TypeError without amount,
\* which handlePaymentCompleted rethrows and POST answers with 500
WhInsertTransaction(h) ==
  /\ pc[h] = "wh_tx"
  /\ IF req[h].shape = "no_amount"
     THEN /\ Respond(h, loc[h], Response(500))
          /\ UNCHANGED credit_transactions
     ELSE /\ \E ok \in QueryOutcomes :
               credit_transactions' =
               IF ok /\ KnownUser(req[h].user) /\ IntegerNotNull(loc[h].add)
               THEN Append(credit_transactions,
                           Transaction(req[h].user, loc[h].add.v, req[h].cap))
               ELSE credit_transactions
          /\ Resume(h, loc[h], "wh_receipt")
  /\ UNCHANGED <<credits, balance, receipts, payment_logs, batch_jobs,
                 job_queue, memory>>

\* receipts.insert({user_id, credits: creditsToAdd, paypal_capture_id})
WhInsertReceipt(h) ==
  /\ pc[h] = "wh_receipt"
  /\ \E ok \in QueryOutcomes :
       receipts' =
       IF ok /\ KnownUser(req[h].user) /\ IntegerNullable(loc[h].add)
       THEN Append(receipts, [user_id |-> req[h].user,
                              credits |-> Json(loc[h].add),
                              paypal_capture_id |-> req[h].cap])
       ELSE receipts
  /\ Resume(h, loc[h], "wh_paylog")
  /\ UNCHANGED <<credits, balance, credit_transactions, payment_logs,
                 batch_jobs, job_queue, memory>>

\* payment_logs.insert({..., status: 'completed'}); then POST answers 200
WhInsertPaymentLog(h) ==
  /\ pc[h] = "wh_paylog"
  /\ \E ok \in QueryOutcomes :
       payment_logs' =
       IF ok /\ KnownUser(req[h].user)
       THEN Append(payment_logs,
                   [user_id |-> req[h].user, payment_id |-> req[h].cap,
                    status |-> "completed"])
       ELSE payment_logs
  /\ Respond(h, loc[h], Response(200))
  /\ UNCHANGED <<credits, balance, credit_transactions, receipts, batch_jobs,
                 job_queue, memory>>

\* handlePaymentFailed: payment_logs.insert({..., status: 'failed'})
WhfInsertPaymentLog(h) ==
  /\ pc[h] = "whf_log"
  /\ \E ok \in QueryOutcomes :
       payment_logs' =
       IF ok /\ KnownUser(req[h].user)
       THEN Append(payment_logs,
                   [user_id |-> req[h].user, payment_id |-> req[h].cap,
                    status |-> "failed"])
       ELSE payment_logs
  /\ Respond(h, loc[h], Response(200))
  /\ UNCHANGED <<credits, balance, credit_transactions, receipts, batch_jobs,
                 job_queue, memory>>

(***************************************************************************)
(* The credit ledger the routes call: deductCreditsAtomic of               *)
(* lib/supabase-client and the deduct_credits function of the database.    *)
(* One isolated transaction checks the funds, decrements them and writes   *)
(* the ledger row; an amount that is no number, or none above zero, or     *)
(* above the funds, changes nothing.                                       *)
(***************************************************************************)
LedgerCanReserve(funds, amount) ==
  IsNum(Json(amount)) /\ amount.v > 0 /\ funds >= amount.v

LedgerReserve(funds, amount) ==
  IF LedgerCanReserve(funds, amount) THEN funds - amount.v ELSE funds

LedgerEntries(user, funds, amount) ==
  IF LedgerCanReserve(funds, amount)
  THEN Append(credit_transactions, Transaction(user, 0 - amount.v, ""))
  ELSE credit_transactions

(***************************************************************************)
(* POST /api/credits/deduct                                                *)
(***************************************************************************)
\* (mutation: the count is compared with <= in place of <)
RateAllowedOffByOne(map, u, t) ==
  \/ u \notin DOMAIN map
  \/ t > map[u].resetAt
  \/ map[u].count <= RATE_LIMIT

\* checkRateLimit(userId): whether the call is allowed
RateAllowed(map, u, t) ==
  \/ u \notin DOMAIN map
  \/ t > map[u].resetAt
  \/ map[u].count < RATE_LIMIT

\* (mutation: an entry, once made, is never replaced)
RateNextNoReset(map, u, t) ==
  IF u \notin DOMAIN map
  THEN (u :> [count |-> 1, resetAt |-> t + RATE_WINDOW]) @@ map
  ELSE IF map[u].count >= RATE_LIMIT THEN map
  ELSE [map EXCEPT ![u].count = @ + 1]

\* (mutation: userLimit.count++ is left out)
RateNextNoIncrement(map, u, t) ==
  IF u \notin DOMAIN map \/ t > map[u].resetAt
  THEN (u :> [count |-> 1, resetAt |-> t + RATE_WINDOW]) @@ map
  ELSE map

\* (mutation: an allowed call inside the window also restarts the window)
RateNextSliding(map, u, t) ==
  IF u \notin DOMAIN map \/ t > map[u].resetAt
  THEN (u :> [count |-> 1, resetAt |-> t + RATE_WINDOW]) @@ map
  ELSE IF map[u].count >= RATE_LIMIT THEN map
  ELSE [map EXCEPT ![u] = [count |-> @.count + 1,
                           resetAt |-> t + RATE_WINDOW]]

\* checkRateLimit(userId): rateLimitMap after the call
RateNext(map, u, t) ==
  IF u \notin DOMAIN map \/ t > map[u].resetAt
  THEN (u :> [count |-> 1, resetAt |-> t + RATE_WINDOW]) @@ map
  ELSE IF map[u].count >= RATE_LIMIT THEN map
  ELSE [map EXCEPT ![u].count = @ + 1]

\* history of checkRateLimit: a window opens with the first call of an
\* identity and with its first call later than RATE_WINDOW after the window's
\* opening call; the calls of the window are counted by what they returned
TallyNext(tl, u, t, ok) ==
  LET one == [anchor |-> t, allowed |-> IF ok THEN 1 ELSE 0,
              denied |-> IF ok THEN 0 ELSE 1]
  IN
  IF u \notin DOMAIN tl
  THEN (u :> [anchor |-> one.anchor, allowed |-> one.allowed,
              denied |-> one.denied, windows |-> 1,
              refusedBefore |-> FALSE]) @@ tl
  ELSE IF t > tl[u].anchor + RATE_WINDOW
  THEN [tl EXCEPT ![u] = [anchor |-> one.anchor, allowed |-> one.allowed,
                          denied |-> one.denied, windows |-> @.windows + 1,
                          refusedBefore |-> @.refusedBefore \/ @.denied > 0]]
  ELSE [tl EXCEPT ![u].allowed = @ + one.allowed,
                  ![u].denied = @ + one.denied]

\* const { amount, reason } = body
AmountOf(r) ==
  CASE r.shape = "half" -> Fraction(r.amount)
    [] r.shape = "text" -> Text
    [] r.shape = "missing" -> Undefined
    [] OTHER -> Num(r.amount)

\* typeof amount === 'number'
TypeofNumber(amount) == amount.t \in {"number", "fraction", "NaN"}

\* amount > bound, for a number amount
Exceeds(amount, bound) ==
  IF amount.t = "fraction" THEN amount.v >= bound
  ELSE IsNum(amount) /\ amount.v > bound

\* !amount || typeof amount !== 'number' || amount <= 0, then amount > 1000
ValidAmount(amount) ==
  /\ Truthy(amount) /\ TypeofNumber(amount)
  /\ Exceeds(amount, 0)
  /\ ~Exceeds(amount, MAX_DEDUCT)

\* (mutation: the amount is validated before the rate limit is checked)
BeforeLimiterValidated(r) ==
  IF ~r.auth THEN 401 ELSE IF ~ValidAmount(AmountOf(r)) THEN 400 ELSE 0

\* the status POST returns with before it calls checkRateLimit(user.id): 401
\* without a valid token; 0 when the call is reached
BeforeLimiter(r) == IF ~r.auth THEN 401 ELSE 0

\* POST up to the call of deductCreditsAtomic
DeductPost(h, r) ==
  /\ r.kind = "deduct"
  /\ LET l0 == Locals(InFlight \ {h}, 0)
     IN
     IF BeforeLimiter(r) # 0
     THEN /\ Arrive(h, r, l0, "done", Response(BeforeLimiter(r)))
          /\ UNCHANGED <<rateLimitMap, tally>>
     ELSE /\ rateLimitMap' = RateNext(rateLimitMap, r.user, now)
          /\ tally' = TallyNext(tally, r.user, now,
                                RateAllowed(rateLimitMap, r.user, now))
          /\ IF ~RateAllowed(rateLimitMap, r.user, now)
             THEN Arrive(h, r, [l0 EXCEPT !.limited = TRUE], "done",
                         Response(429))
             ELSE IF ~ValidAmount(AmountOf(r))
             THEN Arrive(h, r, l0, "done", Response(400))
             ELSE Arrive(h, r, Locals(InFlight \ {h}, credits[r.user]),
                         "dd_call", Response(0))
  /\ UNCHANGED <<store, now>>

\* deductCreditsAtomic(user.id, amount, reason) and the response
DeductCall(h) ==
  /\ pc[h] = "dd_call"
  /\ LET u == AccountOf(req[h])
         amount == AmountOf(req[h])
         ok == LedgerCanReserve(credits[u], amount)
         remaining == LedgerReserve(credits[u], amount)
     IN
     \E served \in QueryOutcomes :
       IF served
       THEN /\ credits' = [credits EXCEPT ![u] = remaining]
            /\ credit_transactions' = LedgerEntries(u, credits[u], amount)
            /\ IF ok
               THEN Respond(h, [loc[h] EXCEPT !.charged = TRUE],
                            [Response(200) EXCEPT !.remaining = Num(remaining)])
               ELSE Respond(h, loc[h],
                            [Response(402) EXCEPT !.remaining = Num(remaining),
                                                  !.required = amount])
       ELSE \* the call throws: catch (error) answers with its own text
            /\ UNCHANGED <<credits, credit_transactions>>
            /\ Respond(h, loc[h],
                       [Response(500) EXCEPT !.error = GenericErrorMessage])
  /\ UNCHANGED <<balance, receipts, payment_logs, batch_jobs, job_queue,
                 memory>>

(***************************************************************************)
(* POST /api/batch                                                         *)
(***************************************************************************)
\* (mutation: every operation is looked up as 'merge')
CostOfMerge(operation) == PropertyOf(CREDIT_COSTS, "merge")

\* CREDIT_COSTS[operation as BatchOperation]
CostOf(operation) == PropertyOf(CREDIT_COSTS, operation)

\* const creditCost = CREDIT_COSTS[operation] * files.length
CreditCost(operation, files) == Times(CostOf(operation), files)

\* POST up to its select of the balance
BatchPost(h, r) ==
  /\ r.kind = "batch"
  /\ LET l0 == [Locals(InFlight \ {h}, 0) EXCEPT
                  !.limited = r.auth /\ ~RateAllowed(rateLimitMap, r.user, now)]
     IN
     IF ~r.auth
     THEN Arrive(h, r, l0, "done", Response(401))
     ELSE IF r.operation = "" \/ r.files = 0
     THEN Arrive(h, r, l0, "done", Response(400))
     ELSE IF ~Truthy(CostOf(r.operation))
     THEN Arrive(h, r, l0, "done", Response(400))
     ELSE Arrive(h, r,
                 [Locals(InFlight \ {h}, balance[r.user]) EXCEPT
                    !.cost = CreditCost(r.operation, r.files),
                    !.limited = l0.limited],
                 "bp_select", Response(0))
  /\ UNCHANGED <<store, memory>>

\* select('balance').eq('user_id', user.id).single(); creditData?.balance || 0;
\* if (balance < creditCost) answer 402
BpSelectBalance(h) ==
  /\ pc[h] = "bp_select"
  /\ \E ok \in QueryOutcomes :
     LET bal == IF ok THEN OrZero(Num(balance[AccountOf(req[h])])) ELSE Num(0)
     IN
     IF LessThan(bal, loc[h].cost)
     THEN Respond(h, [loc[h] EXCEPT !.cur = bal],
                  [Response(402) EXCEPT !.required = Json(loc[h].cost),
                                        !.available = bal])
     ELSE Resume(h, [loc[h] EXCEPT !.cur = bal], "bp_insert")
  /\ UNCHANGED <<store, memory>>

\* files.map((f: string) => ({ input_url: f, status: 'pending' }))
PendingFiles(files) == [i \in 1..files |-> "pending"]

\* batch_jobs.insert({user_id, operation, status: 'pending', files, ...});
\* if (createError) throw createError, and the catch answers 500 with
\* error.message
BpInsertJob(h) ==
  /\ pc[h] = "bp_insert"
  /\ \E ok \in QueryOutcomes :
       IF ok
       THEN /\ batch_jobs' = Append(batch_jobs,
                                    [user_id |-> AccountOf(req[h]),
                                     operation |-> req[h].operation,
                                     files |-> PendingFiles(req[h].files),
                                     status |-> "pending"])
            /\ Resume(h, [loc[h] EXCEPT !.job = Len(batch_jobs) + 1],
                      "bp_deduct")
       ELSE /\ UNCHANGED batch_jobs
            /\ Respond(h, loc[h],
                       [Response(500) EXCEPT !.error = StorageErrorMessage])
  /\ UNCHANGED <<credits, balance, credit_transactions, receipts,
                 payment_logs, job_queue, memory>>

\* await supabase.rpc('deduct_credits', {p_user_id, p_amount: creditCost});
\* what the call returns is not looked at
BpDeductCredits(h) ==
  /\ pc[h] = "bp_deduct"
  /\ \E ok \in QueryOutcomes :
     LET u == AccountOf(req[h])
     IN
     IF ok
     THEN /\ balance' = [balance EXCEPT
                           ![u] = LedgerReserve(balance[u], loc[h].cost)]
          /\ credit_transactions' = LedgerEntries(u, balance[u], loc[h].cost)
          /\ Resume(h, [loc[h] EXCEPT
                          !.charged = LedgerCanReserve(balance[u], loc[h].cost)],
                    "bp_queue")
     ELSE /\ UNCHANGED <<balance, credit_transactions>>
          /\ Resume(h, loc[h], "bp_queue")
  /\ UNCHANGED <<credits, receipts, payment_logs, batch_jobs, job_queue,
                 memory>>

\* job_queue.insert({job_id: createdJob.id}); then the success response
BpEnqueue(h) ==
  /\ pc[h] = "bp_queue"
  /\ \E ok \in QueryOutcomes :
       job_queue' = IF ok THEN Append(job_queue, loc[h].job) ELSE job_queue
  /\ Respond(h, loc[h],
             [Response(200) EXCEPT !.credits_used = Json(loc[h].cost)])
  /\ UNCHANGED <<credits, balance, credit_transactions, receipts,
                 payment_logs, batch_jobs, memory>>

(***************************************************************************)
(* The requests that arrive, and the specifications.                       *)
(***************************************************************************)
Completed == "PAYMENT.CAPTURE.COMPLETED"
Denied == "PAYMENT.CAPTURE.DENIED"

\* the three endpoints together, a few requests each
Requests ==
  {WebhookReq(TRUE, "ok", Completed, "u1", "STARTER_PLAN", "cap1"),
   WebhookReq(TRUE, "ok", Denied, "u1", "STARTER_PLAN", "cap_denied"),
   DeductReq(TRUE, "u1", 50), DeductReq(FALSE, "", 50),
   BatchReq(TRUE, "u1", "ocr", 1), BatchReq(TRUE, "u1", "merge", 2),
   BatchReq(TRUE, "u1", "resize", 1)}

\* the webhook alone, every shape of event
WebhookRequests ==
  {WebhookReq(TRUE, "ok", Completed, "u1", "STARTER_PLAN", "cap1"),
   WebhookReq(TRUE, "ok", Completed, "u1", "PRO_PLAN", "cap2"),
   WebhookReq(TRUE, "ok", Completed, "u1", "MYSTERY_PLAN", "cap_mystery"),
   WebhookReq(TRUE, "ok", Completed, "u1", "constructor", "cap_proto"),
   WebhookReq(TRUE, "ok", Completed, "", "STARTER_PLAN", "cap_nouser"),
   WebhookReq(TRUE, "ok", Completed, "u1", "", "cap_noplan"),
   WebhookReq(TRUE, "no_amount", Completed, "u1", "STARTER_PLAN", "cap_noamount"),
   WebhookReq(TRUE, "no_resource", Completed, "", "", ""),
   WebhookReq(TRUE, "not_json", "", "", "", ""),
   WebhookReq(FALSE, "ok", Completed, "u1", "STARTER_PLAN", "cap_forged"),
   WebhookReq(TRUE, "ok", Denied, "u1", "STARTER_PLAN", "cap_denied"),
   WebhookReq(TRUE, "ok", "CHECKOUT.ORDER.APPROVED", "u1", "STARTER_PLAN", "cap_other")}

Next ==
  \E h \in Handlers :
    \/ \E r \in Requests : WebhookPost(h, r)
    \/ WhSelectCredits(h)
    \/ WhUpsertCredits(h)
    \/ WhInsertTransaction(h)
    \/ WhInsertReceipt(h)
    \/ WhInsertPaymentLog(h)
    \/ WhfInsertPaymentLog(h)
    \/ \E r \in Requests : DeductPost(h, r)
    \/ DeductCall(h)
    \/ \E r \in Requests : BatchPost(h, r)
    \/ BpSelectBalance(h)
    \/ BpInsertJob(h)
    \/ BpDeductCredits(h)
    \/ BpEnqueue(h)

Spec == Init /\ [][Next]_vars

NextWebhook ==
  \E h \in Handlers :
    \/ \E r \in WebhookRequests : WebhookPost(h, r)
    \/ WhSelectCredits(h)
    \/ WhUpsertCredits(h)
    \/ WhInsertTransaction(h)
    \/ WhInsertReceipt(h)
    \/ WhInsertPaymentLog(h)
    \/ WhfInsertPaymentLog(h)

SpecWebhook == Init /\ [][NextWebhook]_vars

Declined == "PAYMENT.CAPTURE.DECLINED"

\* payment events: a completed one and the failed ones, whole and lacking
EventRequests ==
  {WebhookReq(TRUE, "ok", Completed, "u1", "STARTER_PLAN", "cap1"),
   WebhookReq(TRUE, "ok", Denied, "u1", "STARTER_PLAN", "cap_denied"),
   WebhookReq(TRUE, "ok", Declined, "u1", "STARTER_PLAN", "cap_declined"),
   WebhookReq(TRUE, "ok", Denied, "", "STARTER_PLAN", "cap_anon"),
   WebhookReq(TRUE, "no_amount", Declined, "u1", "STARTER_PLAN", "cap_bare")}

NextEvents ==
  \E h \in Handlers :
    \/ \E r \in EventRequests : WebhookPost(h, r)
    \/ WhSelectCredits(h)
    \/ WhUpsertCredits(h)
    \/ WhInsertTransaction(h)
    \/ WhInsertReceipt(h)
    \/ WhInsertPaymentLog(h)
    \/ WhfInsertPaymentLog(h)

SpecEvents == Init /\ [][NextEvents]_vars

InitFaulty == Start(Environment(MaxReqs, TRUE))

\* a completed and a failed payment against a database that may refuse
FaultRequests ==
  {WebhookReq(TRUE, "ok", Completed, "u1", "STARTER_PLAN", "cap1"),
   WebhookReq(TRUE, "ok", Denied, "u1", "STARTER_PLAN", "cap_denied")}

NextFaulty ==
  \E h \in Handlers :
    \/ \E r \in FaultRequests : WebhookPost(h, r)
    \/ WhSelectCredits(h)
    \/ WhUpsertCredits(h)
    \/ WhInsertTransaction(h)
    \/ WhInsertReceipt(h)
    \/ WhInsertPaymentLog(h)
    \/ WhfInsertPaymentLog(h)

SpecFaulty == InitFaulty /\ [][NextFaulty]_vars

\* Date.now() between two requests
Tick ==
  /\ now < MaxWindows * RATE_WINDOW
  /\ now' = now + RATE_WINDOW \div TicksPerWindow
  /\ UNCHANGED <<store, rateLimitMap, tally, pc, req, loc, resp, nreq, env,
                 client>>

\* one identity against the rate limiter of the deduction endpoint
RateRequests == {DeductReq(TRUE, "u1", 50)}

InitRate == Start(Environment(RATE_LIMIT + ExtraCalls, FALSE))

NextRate ==
  \/ Tick
  \/ \E h \in Handlers :
       \/ \E r \in RateRequests : DeductPost(h, r)
       \/ DeductCall(h)

\* deductions and batch submissions of one identity, the clock standing
GateRequests == {DeductReq(TRUE, "u1", 50), BatchReq(TRUE, "u1", "ocr", 1)}

NextGate ==
  \E h \in Handlers :
       \/ \E r \in GateRequests : DeductPost(h, r)
       \/ DeductCall(h)
       \/ \E r \in GateRequests : BatchPost(h, r)
       \/ BpSelectBalance(h)
       \/ BpInsertJob(h)
       \/ BpDeductCredits(h)
       \/ BpEnqueue(h)

SpecGate == InitRate /\ [][NextGate]_vars

\* batch submissions of every shape: known operations within and beyond the
\* funds, an unknown one, the name of a built-in object property, a missing
\* operation, an empty file list, a missing token
BatchRequests ==
  {BatchReq(TRUE, "u1", "ocr", 1), BatchReq(TRUE, "u1", "convert", 2),
   BatchReq(TRUE, "u1", "ocr", 3), BatchReq(TRUE, "u1", "resize", 1), BatchReq(TRUE, "u1", "constructor", 1),
   BatchReq(TRUE, "u1", "", 1), BatchReq(TRUE, "u1", "merge", 0),
   BatchReq(FALSE, "", "merge", 1)}

NextBatch ==
  \E h \in Handlers :
    \/ \E r \in BatchRequests : BatchPost(h, r)
    \/ BpSelectBalance(h)
    \/ BpInsertJob(h)
    \/ BpDeductCredits(h)
    \/ BpEnqueue(h)

SpecBatch == Init /\ [][NextBatch]_vars

\* deductions with every kind of amount in the body
DeductRequests ==
  {DeductReq(TRUE, "u1", 50), DeductReq(TRUE, "u1", 0),
   DeductReq(TRUE, "u1", 0 - 5), DeductReq(TRUE, "u1", MAX_DEDUCT),
   DeductReq(TRUE, "u1", MAX_DEDUCT + 1),
   DeductBody(TRUE, "u1", "half", 2), DeductBody(TRUE, "u1", "text", 0),
   DeductBody(TRUE, "u1", "missing", 0), DeductReq(FALSE, "", 50)}

NextDeduct ==
  \E h \in Handlers :
    \/ \E r \in DeductRequests : DeductPost(h, r)
    \/ DeductCall(h)

SpecDeduct == Init /\ [][NextDeduct]_vars

\* requests of the one user u1, with and without a token, whose bodies name
\* another account, and a payment that gives u1 credits to spend
IdentityRequests ==
  {WebhookReq(TRUE, "ok", Completed, "u1", "STARTER_PLAN", "cap1"),
   WithBodyUser(DeductReq(TRUE, "u1", 50), "u2"), DeductReq(TRUE, "u1", 50),
   WithBodyUser(BatchReq(TRUE, "u1", "ocr", 1), "u2"),
   BatchReq(TRUE, "u1", "ocr", 1),
   WithBodyUser(DeductReq(FALSE, "", 50), "u1"),
   WithBodyUser(BatchReq(FALSE, "", "ocr", 1), "u1")}

NextIdentity ==
  \E h \in Handlers :
    \/ \E r \in IdentityRequests : WebhookPost(h, r)
    \/ WhSelectCredits(h)
    \/ WhUpsertCredits(h)
    \/ WhInsertTransaction(h)
    \/ WhInsertReceipt(h)
    \/ WhInsertPaymentLog(h)
    \/ \E r \in IdentityRequests : DeductPost(h, r)
    \/ DeductCall(h)
    \/ \E r \in IdentityRequests : BatchPost(h, r)
    \/ BpSelectBalance(h)
    \/ BpInsertJob(h)
    \/ BpDeductCredits(h)
    \/ BpEnqueue(h)

SpecIdentity == Init /\ [][NextIdentity]_vars

SpecRate == InitRate /\ [][NextRate]_vars

(***************************************************************************)
(* Properties.                                                             *)
(***************************************************************************)
RECURSIVE SumAmounts(_, _)
\* the sum of the amounts of the rows of the user in a sequence of rows
SumAmounts(rows, u) ==
  IF rows = <<>> THEN 0
  ELSE (IF Head(rows).user_id = u THEN Head(rows).amount ELSE 0)
       + SumAmounts(Tail(rows), u)

\* the rows of credit_transactions, and of receipts, of a capture id
TransactionsOf(cap) ==
  {i \in DOMAIN credit_transactions : credit_transactions[i].capture_id = cap}
ReceiptsOf(cap) ==
  {i \in DOMAIN receipts : receipts[i].paypal_capture_id = cap}

\* the handler has answered a request of the kind
Answered(h, kind) == pc[h] = "done" /\ req[h].kind = kind

\* the requests of the two handlers were in flight at the same time
Overlap(h, g) == g \in loc[h].peers \/ h \in loc[g].peers

\* C1: after any interleaving of batch submissions, deductions and webhook
\* credits no stored balance of an account is negative
C1_BalanceNonNegative ==
  \A u \in Users : credits[u] >= 0 /\ balance[u] >= 0

\* a webhook credit, a deduction and a batch charge have all acted on u1
C1_Witness ==
  /\ credits["u1"] = 50
  /\ balance["u1"] < InitBalance
  /\ \E i \in DOMAIN credit_transactions : credit_transactions[i].amount = 100

\* the batch submission was answered with success: job created and enqueued
BatchSucceeded(h) ==
  /\ Answered(h, "batch")
  /\ resp[h].status = 200
  /\ loc[h].job \in DOMAIN batch_jobs

\* C2: two concurrent batch submissions on one account never both succeed
\* when their costs together exceed the balance they started from
C2_NoJointOverdraft ==
  \A h, g \in Handlers :
    ( /\ h # g
      /\ BatchSucceeded(h) /\ BatchSucceeded(g)
      /\ req[h].user = req[g].user
      /\ Overlap(h, g)
      /\ loc[h].startBal = loc[g].startBal )
    => loc[h].cost.v + loc[g].cost.v <= loc[h].startBal

\* C3: however often one capture id is delivered, credit_transactions holds
\* at most one row for it
C3_ExactlyOnceCredit ==
  \A i, j \in DOMAIN credit_transactions :
    ( /\ credit_transactions[i].capture_id # ""
      /\ credit_transactions[i].capture_id = credit_transactions[j].capture_id )
    => i = j

\* C4: in every state the amounts of the ledger rows of an account sum to its
\* stored balance
C4_Conservation ==
  \A u \in Users : SumAmounts(credit_transactions, u) = credits[u] + balance[u]

\* the handler has carried a completed payment through to its 200
Credited(h) ==
  /\ Answered(h, "webhook")
  /\ req[h].event_type = Completed
  /\ CompletedGuards(req[h]) = "go"
  /\ IsNum(loc[h].add)
  /\ resp[h].status = 200

\* C5: two concurrent webhook credits a and b of different capture ids, the
\* only requests so far, leave the balance at initial + a + b
C5_NoLostCredit ==
  \A h, g \in Handlers :
    ( /\ h # g
      /\ Credited(h) /\ Credited(g)
      /\ req[h].user = req[g].user
      /\ req[h].cap # req[g].cap
      /\ nreq = 2 )
    => credits[req[h].user] = DEFAULT_CREDITS + loc[h].add.v + loc[g].add.v

\* C6: the same deduction made twice gives the same result both times and
\* takes effect once
C6_DeductIdempotent ==
  \A h, g \in Handlers :
    ( /\ h # g
      /\ Answered(h, "deduct") /\ Answered(g, "deduct")
      /\ req[h] = req[g]
      /\ resp[h].status = 200 )
    => resp[g] = resp[h] /\ ~(loc[h].charged /\ loc[g].charged)

\* C7: the same batch submission made twice charges the account once
C7_RetryChargesOnce ==
  \A h, g \in Handlers :
    ( /\ h # g
      /\ Answered(h, "batch") /\ Answered(g, "batch")
      /\ req[h] = req[g] )
    => ~(loc[h].charged /\ loc[g].charged)

\* a verified completed payment that names a user and a plan id, the plan id
\* being none of the credit package table
UnknownPlan(r) ==
  /\ r.kind = "webhook" /\ verifyPayPalWebhook(r)
  /\ r.event_type = Completed /\ r.shape = "ok"
  /\ r.user # "" /\ r.plan # ""
  /\ r.plan \notin DOMAIN CREDIT_PACKAGES

\* C8: a completed payment with an unknown plan id leaves no ledger row and
\* no receipt
C8_UnknownPlanRejected ==
  \A h \in Handlers :
    UnknownPlan(req[h]) =>
      TransactionsOf(req[h].cap) = {} /\ ReceiptsOf(req[h].cap) = {}

\* a verified completed payment whose payload lacks the user or the plan id
MissingIds(r) ==
  /\ r.kind = "webhook" /\ verifyPayPalWebhook(r)
  /\ r.event_type = Completed
  /\ (r.user = "" \/ r.plan = "")

\* C9: a completed payment without user id or plan id never gets past the
\* guards: the handler makes no query, so no balance changes, and no row of
\* the ledger or of the receipts is written for it or for a guessed account
C9_MissingIdsRejected ==
  \A h \in Handlers :
    MissingIds(req[h]) =>
      /\ Idle(h)
      /\ req[h].cap # "" =>
           TransactionsOf(req[h].cap) = {} /\ ReceiptsOf(req[h].cap) = {}
      /\ \A i \in DOMAIN credit_transactions :
           credit_transactions[i].user_id \in Users
      /\ \A i \in DOMAIN receipts : receipts[i].user_id \in Users

\* such a payment has been handled after another one was credited
C9_Witness ==
  \E h \in Handlers :
    /\ MissingIds(req[h]) /\ req[h].shape = "ok"
    /\ pc[h] = "done" /\ resp[h].status = 200
    /\ credits["u1"] > 0

\* a verified completed payment the gateway has to reject
Rejected(r) ==
  /\ r.kind = "webhook" /\ verifyPayPalWebhook(r)
  /\ r.event_type = Completed
  /\ \/ r.shape = "no_resource"
     \/ r.user = "" \/ r.plan = ""
     \/ r.plan \notin DOMAIN CREDIT_PACKAGES

\* C10: the webhook answers 200 exactly for an accepted event and a 4xx
\* status for a rejected one
C10_StatusContract ==
  \A h \in Handlers :
    (Answered(h, "webhook") /\ verifyPayPalWebhook(req[h])) =>
      /\ Rejected(req[h]) => resp[h].status \in 400..499
      /\ resp[h].status = 200 => ~Rejected(req[h])
      /\ (~Rejected(req[h]) /\ req[h].shape = "ok") => resp[h].status = 200

\* a verified PAYMENT.CAPTURE.DENIED or PAYMENT.CAPTURE.DECLINED event
FailedEvent(r) ==
  /\ r.kind = "webhook" /\ verifyPayPalWebhook(r)
  /\ r.event_type \in {Denied, Declined}

\* the rows of payment_logs of a capture id with the status
PaymentLogsOf(cap, status) ==
  {i \in DOMAIN payment_logs :
     payment_logs[i].payment_id = cap /\ payment_logs[i].status = status}

\* C11: handling a failed payment event records a payment log row with status
\* failed, and touches no balance and no ledger row: the handler is never at
\* a query of the crediting path and no ledger row or receipt bears its id
C11_FailedPaymentLogged ==
  \A h \in Handlers :
    FailedEvent(req[h]) =>
      /\ pc[h] \in {"whf_log", "done"}
      /\ TransactionsOf(req[h].cap) = {} /\ ReceiptsOf(req[h].cap) = {}
      /\ pc[h] = "done" => PaymentLogsOf(req[h].cap, "failed") # {}

\* C12: the payment log row of a capture is stored before, or together with,
\* the credit to the balance: whenever a handler's upsert of the new total
\* has taken effect, payment_logs holds a row of its capture id
C12_AuditBeforeCredit ==
  \A h \in Handlers :
    (req[h].kind = "webhook" /\ loc[h].charged) =>
      \E i \in DOMAIN payment_logs : payment_logs[i].payment_id = req[h].cap

\* C13: every rejected webhook leaves a durable audit record: once a rejected
\* event (missing user id, missing plan id, unknown plan, a failed payment
\* naming no user) is answered, payment_logs holds a row of its capture id
C13_RejectionAudited ==
  \A h \in Handlers :
    ( /\ Answered(h, "webhook")
      /\ Rejected(req[h]) \/ (FailedEvent(req[h]) /\ req[h].user = "") ) =>
      \E i \in DOMAIN payment_logs : payment_logs[i].payment_id = req[h].cap

\* C14: handling a completed payment is all or nothing: when one payment has
\* been handled alone, whatever query failed, the balance is credited exactly
\* if the ledger holds the row of the capture
C14_AllOrNothing ==
  \A h \in Handlers :
    ( /\ nreq = 1
      /\ Answered(h, "webhook") /\ verifyPayPalWebhook(req[h])
      /\ req[h].event_type = Completed ) =>
      (credits[req[h].user] # DEFAULT_CREDITS
         <=> TransactionsOf(req[h].cap) # {})

\* a verified completed payment of a known user for a plan of the table
KnownPlan(r) ==
  /\ r.kind = "webhook" /\ verifyPayPalWebhook(r)
  /\ r.event_type = Completed /\ r.shape = "ok"
  /\ KnownUser(r.user) /\ r.plan \in DOMAIN CREDIT_PACKAGES

\* C15: for a completed payment with a known plan id the handler's upsert
\* raises the balance by exactly the table amount of the plan, and its ledger
\* row and its receipt record that same amount
C15_ExactAmount ==
  [][\A h \in Handlers :
       KnownPlan(req[h]) =>
         LET u == req[h].user
             amount == CREDIT_PACKAGES[req[h].plan]
         IN
         /\ (pc[h] = "wh_upsert" /\ pc'[h] = "wh_tx") =>
              credits'[u] = credits[u] + amount
         /\ (pc[h] = "wh_tx" /\ pc'[h] = "wh_receipt") =>
              credit_transactions' =
                Append(credit_transactions, Transaction(u, amount, req[h].cap))
         /\ (pc[h] = "wh_receipt" /\ pc'[h] = "wh_paylog") =>
              receipts' = Append(receipts, [user_id |-> u,
                                            credits |-> Num(amount),
                                            paypal_capture_id |-> req[h].cap])
    ]_vars

\* a webhook request whose verification does not return SUCCESS: PayPal says
\* otherwise, or the call fails (no verdict obtained, a body that is no JSON)
Unverified(r) == r.kind = "webhook" /\ (~r.auth \/ r.shape = "not_json")

\* the rows of payment_logs of a capture id
PaymentLogged(cap) ==
  {i \in DOMAIN payment_logs : payment_logs[i].payment_id = cap}

\* C16: a webhook request whose signature verification did not return SUCCESS
\* is answered 400 at once, without any query: no balance, ledger, receipt
\* or payment-log write is made for it
C16_UnverifiedWritesNothing ==
  \A h \in Handlers :
    (pc[h] # "idle" /\ Unverified(req[h])) =>
      /\ pc[h] = "done" /\ resp[h].status = 400
      /\ ~loc[h].charged
      /\ req[h].cap # "" =>
           /\ TransactionsOf(req[h].cap) = {}
           /\ ReceiptsOf(req[h].cap) = {}
           /\ PaymentLogged(req[h].cap) = {}

\* a forged request and one whose verification failed have been answered
\* after a genuine payment was credited
C16_Witness ==
  \E h, g \in Handlers :
    /\ pc[h] = "done" /\ ~req[h].auth /\ req[h].cap = "cap_forged"
    /\ pc[g] = "done" /\ req[g].shape = "not_json"
    /\ resp[h].status = 400 /\ resp[g].status = 400
    /\ credits["u1"] > 0

\* C17: for one identity, window by window: the first RATE_LIMIT calls of
\* checkRateLimit in a window are allowed (none is denied before RATE_LIMIT
\* were allowed), every later call of the window is denied (never more than
\* RATE_LIMIT allowed), and the call that opens a window is allowed.  A
\* window is the RATE_WINDOW after its opening call, both ends included
C17_WindowQuota ==
  \A u \in DOMAIN tally :
    /\ tally[u].allowed <= RATE_LIMIT
    /\ tally[u].denied > 0 => tally[u].allowed = RATE_LIMIT
    /\ tally[u].allowed >= 1

\* a window in which calls were denied has been followed by a window whose
\* opening call was allowed
C17_Witness ==
  \E u \in DOMAIN tally :
    /\ tally[u].windows >= 2 /\ tally[u].refusedBefore
    /\ tally[u].allowed >= 1

\* this step is a call of checkRateLimit for u that returned false
Refused(u) ==
  tally'[u].denied >
    (IF tally'[u].windows = tally[u].windows THEN tally[u].denied ELSE 0)

\* C18 (as stated): a call of checkRateLimit arriving at time resetAt or
\* later starts a new window with count 1 and is allowed
C18_ResetAtBoundary ==
  [][\A u \in DOMAIN rateLimitMap :
       (tally'[u] # tally[u] /\ now >= rateLimitMap[u].resetAt) =>
         /\ rateLimitMap'[u] = [count |-> 1, resetAt |-> now + RATE_WINDOW]
         /\ ~Refused(u)
    ]_vars

\* C18 (amended): a call of checkRateLimit arriving later than resetAt starts
\* a new window with count 1 and is allowed; a call at resetAt itself still
\* belongs to the old window
C18_ResetAfterBoundary ==
  [][\A u \in DOMAIN rateLimitMap :
       (tally'[u] # tally[u]) =>
         /\ now > rateLimitMap[u].resetAt =>
              /\ rateLimitMap'[u] = [count |-> 1, resetAt |-> now + RATE_WINDOW]
              /\ ~Refused(u)
         /\ now = rateLimitMap[u].resetAt =>
              /\ rateLimitMap'[u].resetAt = rateLimitMap[u].resetAt
              /\ Refused(u) <=> rateLimitMap[u].count >= RATE_LIMIT
    ]_vars

\* a call later than resetAt has just replaced the entry of a window that was
\* used up and had refused calls
C18_Witness ==
  \E u \in DOMAIN rateLimitMap :
    /\ tally[u].refusedBefore
    /\ tally[u].anchor = now /\ now > RATE_WINDOW
    /\ rateLimitMap[u] = [count |-> 1, resetAt |-> now + RATE_WINDOW]

\* C19: however the handlers interleave, no increment of an identity's count
\* is lost: the entry of rateLimitMap counts exactly the calls that returned
\* true in the window, and these never exceed RATE_LIMIT
C19_NoLostIncrement ==
  \A u \in DOMAIN rateLimitMap :
    /\ u \in DOMAIN tally
    /\ rateLimitMap[u].count = tally[u].allowed
    /\ rateLimitMap[u].resetAt = tally[u].anchor + RATE_WINDOW
    /\ tally[u].allowed <= RATE_LIMIT

\* a call is refused while a handler that was let through for the same
\* identity is still suspended in its deduction
C19_Witness ==
  \E h, g \in Handlers :
    /\ h # g /\ pc[h] = "dd_call" /\ h \in loc[g].peers
    /\ Answered(g, "deduct") /\ resp[g].status = 429
    /\ req[g].user = req[h].user
    /\ rateLimitMap[req[h].user].count = RATE_LIMIT

\* C20: the rate limiter gates every ledger-mutating entry point of a user:
\* a batch submission or a deduction by an identity that had used up its
\* window when it arrived is answered 429 at once, creates no job and
\* changes no balance
C20_LimiterGatesAll ==
  \A h \in Handlers :
    (req[h].kind \in {"batch", "deduct"} /\ loc[h].limited) =>
      /\ pc[h] = "done" /\ resp[h].status = 429
      /\ loc[h].job = 0 /\ ~loc[h].charged

\* C21: the amount charged for a batch submission is the per-unit cost of its
\* operation times the number of its files, and credits_used reports that
\* same number: a submission of a known operation answered with success has
\* been charged, through the ledger, the table cost times its files, which
\* is what its response carries
C21_ChargedAsReported ==
  \A h \in Handlers :
    (BatchSucceeded(h) /\ req[h].operation \in DOMAIN CREDIT_COSTS) =>
      LET due == Num(CREDIT_COSTS[req[h].operation] * req[h].files)
      IN /\ loc[h].cost = due
         /\ resp[h].credits_used = due
         /\ loc[h].charged

\* a batch submission the validation has to refuse: the operation is none of
\* the 11 of the table, or the file list is missing or empty
InvalidSubmission(r) ==
  /\ r.kind = "batch" /\ r.auth
  /\ (r.operation \notin DOMAIN CREDIT_COSTS \/ r.files = 0)

\* C22: a batch submission with an operation outside the 11 known ones, or
\* without files, is answered 400 at once: it makes no query, so no job, no
\* queue entry and no balance change come of it
C22_InvalidRejected ==
  \A h \in Handlers :
    InvalidSubmission(req[h]) =>
      /\ pc[h] = "done" /\ resp[h].status = 400
      /\ loc[h].job = 0 /\ ~loc[h].charged
      /\ \A j \in DOMAIN batch_jobs :
           batch_jobs[j].operation \in DOMAIN CREDIT_COSTS

\* a batch submission that passes the validation
ValidSubmission(r) ==
  /\ r.kind = "batch" /\ r.auth
  /\ r.operation \in DOMAIN CREDIT_COSTS /\ r.files > 0

\* C23: a batch submission whose cost exceeds the balance of the account is
\* answered 402 with required = cost and available = balance by the step
\* that reads the balance, which writes nothing and ends the request: no
\* job, no queue entry, no balance change
C23_InsufficientFunds ==
  [][\A h \in Handlers :
       LET u == req[h].user
           due == CREDIT_COSTS[req[h].operation] * req[h].files
       IN
       ( /\ pc[h] = "bp_select" /\ pc'[h] # "bp_select"
         /\ ValidSubmission(req[h])
         /\ due > balance[u] ) =>
         /\ pc'[h] = "done" /\ resp'[h].status = 402
         /\ resp'[h].required = Num(due)
         /\ resp'[h].available = Num(balance[u])
         /\ loc'[h].job = 0 /\ ~loc'[h].charged
         /\ UNCHANGED store
    ]_vars

\* a submission has been answered 402 after an earlier job used up a part of
\* the balance
C23_Witness ==
  \E h \in Handlers :
    /\ Answered(h, "batch") /\ resp[h].status = 402
    /\ resp[h].required = Num(4)
    /\ resp[h].available = Num(balance[req[h].user])
    /\ balance[req[h].user] < InitBalance
    /\ batch_jobs # <<>>

\* C24: a batch job is persisted only after its credit reservation succeeded,
\* with one pending file task per submitted input, and is then enqueued: a
\* handler that holds a created job has had its charge accepted by the ledger,
\* the job's files are all pending and as many as were submitted, and a job
\* in the queue is a persisted one
C24_ReserveThenPersist ==
  /\ \A h \in Handlers :
       (req[h].kind = "batch" /\ loc[h].job # 0) =>
         /\ loc[h].charged
         /\ loc[h].job \in DOMAIN batch_jobs
         /\ batch_jobs[loc[h].job].files = PendingFiles(req[h].files)
  /\ \A i \in DOMAIN job_queue : job_queue[i] \in DOMAIN batch_jobs

\* the body's amount is a positive integer of at most 1000
IntegerAmount(r) == r.shape = "ok" /\ r.amount \in 1..MAX_DEDUCT

\* C28: the deduction endpoint passes only a positive integer amount of at
\* most 1000 to the ledger: an authenticated request within its rate limit
\* with any other amount is answered 400 at once and the ledger is not called
C28_OnlyIntegerAmounts ==
  \A h \in Handlers :
    ( /\ req[h].kind = "deduct" /\ req[h].auth /\ ~loc[h].limited
      /\ ~IntegerAmount(req[h]) ) =>
      /\ pc[h] = "done" /\ resp[h].status = 400
      /\ ~loc[h].charged

\* the step is a debit made for the request of handler h
Debits(h) ==
  /\ req[h].kind \in {"deduct", "batch"}
  /\ pc[h] \in {"dd_call", "bp_deduct"}
  /\ ~loc[h].charged /\ loc'[h].charged

\* C29: the account a deduction or a batch submission debits is the one of
\* the identity verified from the token, whatever user its body names: a
\* debit lowers a column of the token's account and touches no other
\* account, jobs belong to the token's account, and a request without a
\* valid token is answered 401 and debits nothing
C29_TokenDecidesAccount ==
  [][\A h \in Handlers :
       /\ Debits(h) =>
            /\ req[h].auth
            /\ \/ credits'[req[h].user] < credits[req[h].user]
               \/ balance'[req[h].user] < balance[req[h].user]
            /\ \A u \in Users \ {req[h].user} :
                 credits'[u] = credits[u] /\ balance'[u] = balance[u]
            /\ \A i \in DOMAIN credit_transactions' \ DOMAIN credit_transactions :
                 credit_transactions'[i].user_id = req[h].user
       /\ (req'[h].kind \in {"deduct", "batch"} /\ loc'[h].job # 0) =>
            batch_jobs'[loc'[h].job].user_id = req'[h].user
       /\ ( /\ req'[h].kind \in {"deduct", "batch"} /\ ~req'[h].auth
            /\ pc'[h] # "idle" ) =>
            /\ pc'[h] = "done" /\ resp'[h].status = 401
            /\ loc'[h].job = 0 /\ ~loc'[h].charged
    ]_vars

\* requests have debited u1 by a deduction and by a batch submission, one of
\* them with a body that names u2, whose account is as it was
C29_Witness ==
  /\ credits["u1"] = 50 /\ balance["u1"] < InitBalance
  /\ credits["u2"] = DEFAULT_CREDITS /\ balance["u2"] = InitBalance
  /\ \E h \in Handlers :
       /\ req[h].body_user = "u2" /\ loc[h].charged

(***************************************************************************)
(* GET /api/batch, and the endpoints against a database that may refuse.   *)
(***************************************************************************)
\* GET: 401 without a valid token; ?action=operations is answered from
\* CREDIT_COSTS; otherwise one select on batch_jobs
BatchGet(h, r) ==
  /\ r.kind = "jobs"
  /\ LET l0 == Locals(InFlight \ {h}, 0)
     IN
     IF ~r.auth
     THEN Arrive(h, r, l0, "done", Response(401))
     ELSE IF r.shape = "operations"
     THEN Arrive(h, r, l0, "done", Response(200))
     ELSE Arrive(h, r, l0, "bg_select", Response(0))
  /\ UNCHANGED <<store, memory>>

\* (mutation: the filter on user_id is left out)
OwnedByAnyone(job, user) == TRUE

\* .eq('user_id', user.id)
OwnedBy(job, user) == job.user_id = user

\* ?id=: .eq('id', jobId).eq('user_id', user.id).single(), 404 'Job not found'
\* on an error or no row, else {job: data}.  The list: the user's rows; if
\* (error) throw error, and the catch answers 500 with error.message
BgSelect(h) ==
  /\ pc[h] = "bg_select"
  /\ \E ok \in QueryOutcomes :
       IF req[h].shape = "one"
       THEN LET id == req[h].amount.v
                found == /\ ok
                         /\ id \in 1..Len(batch_jobs)
                         /\ OwnedBy(batch_jobs[id], AccountOf(req[h]))
            IN IF found
               THEN Respond(h, loc[h], [Response(200) EXCEPT !.jobs = {id}])
               ELSE Respond(h, loc[h], Response(404))
       ELSE IF ok
       THEN Respond(h, loc[h],
                    [Response(200) EXCEPT
                       !.jobs = {j \in 1..Len(batch_jobs) :
                                   OwnedBy(batch_jobs[j], AccountOf(req[h]))}])
       ELSE Respond(h, loc[h],
                    [Response(500) EXCEPT !.error = StorageErrorMessage])
  /\ UNCHANGED <<store, memory>>

\* a batch, a deduction, the job list and one job
FaultyApiRequests ==
  {BatchReq(TRUE, "u1", "ocr", 1), DeductReq(TRUE, "u1", 50),
   BatchGetReq(TRUE, "u1", "list", Num(0)),
   BatchGetReq(TRUE, "u1", "one", Num(1)),
   BatchGetReq(TRUE, "u1", "operations", Num(0)),
   BatchGetReq(FALSE, "", "list", Num(0))}

NextFaultyApi ==
  \E h \in Handlers :
    \/ \E r \in FaultyApiRequests : DeductPost(h, r)
    \/ DeductCall(h)
    \/ \E r \in FaultyApiRequests : BatchPost(h, r)
    \/ BpSelectBalance(h)
    \/ BpInsertJob(h)
    \/ BpDeductCredits(h)
    \/ BpEnqueue(h)
    \/ \E r \in FaultyApiRequests : BatchGet(h, r)
    \/ BgSelect(h)

SpecFaultyApi == InitFaulty /\ [][NextFaultyApi]_vars

\* C30: no response of the deduction endpoint or of the batch endpoint (GET
\* and POST) carries the text of a storage error: a failed request is answered
\* with a message written in the route.
C30_NoStorageErrorText ==
  \A h \in Handlers :
    (pc[h] = "done" /\ req[h].kind \in {"deduct", "batch", "jobs"})
      => resp[h].error # StorageErrorMessage

(***************************************************************************)
(* The consumer of job_queue ('batch_pdf' jobs): the Batch Orchestrator's  *)
(* background part, which drives the file tasks of a queued job, cancels,  *)
(* and reconciles the reservation.                                         *)
(***************************************************************************)
\* how many file tasks of a job are processed at a time
Parallelism == 2

\* BatchFile.status, and "cancelled" for {status: 'failed', error: 'cancelled'}
TaskTerminal == {"completed", "failed", "cancelled"}

\* the terminal states of a job
JobTerminal == {"completed", "partially_failed", "failed"}

\* the indexes of the file tasks of a job that are in one of the states
TasksIn(files, states) == {i \in DOMAIN files : files[i] \in states}

\* per_unit_cost(operation) of a persisted job
UnitCost(job) == CostOf(job.operation).v

\* reserved_credits - actual_credits: the per-unit cost of each file task that
\* was not completed
Refund(job) ==
  UnitCost(job) * Cardinality(TasksIn(job.files, TaskTerminal \ {"completed"}))

\* Completed if all files succeeded, PartiallyFailed if some, Failed if none
FinalState(files) ==
  LET k == Cardinality(TasksIn(files, {"completed"}))
  IN IF k = Len(files) THEN "completed"
     ELSE IF k > 0 THEN "partially_failed"
     ELSE "failed"

Jobs == 1..Len(batch_jobs)

\* a queued job is taken from job_queue and becomes Running; one job at a time
StartJob ==
  /\ job_queue # <<>>
  /\ \A j \in Jobs : batch_jobs[j].status # "running"
  /\ LET j == Head(job_queue)
     IN
     /\ IsNum(CostOf(batch_jobs[j].operation))
     /\ batch_jobs' = [batch_jobs EXCEPT ![j].status = "running"]
  /\ job_queue' = Tail(job_queue)
  /\ UNCHANGED <<credits, balance, credit_transactions, receipts,
                 payment_logs, memory, pc, req, loc, resp, nreq, env, client>>

\* the next pending file task is dispatched to process(operation, input_ref)
StartTask(j) ==
  /\ batch_jobs[j].status = "running"
  /\ TasksIn(batch_jobs[j].files, {"pending"}) # {}
  /\ Cardinality(TasksIn(batch_jobs[j].files, {"processing"})) < Parallelism
  /\ LET i == CHOOSE i \in TasksIn(batch_jobs[j].files, {"pending"}) :
                \A k \in TasksIn(batch_jobs[j].files, {"pending"}) : i <= k
     IN batch_jobs' = [batch_jobs EXCEPT ![j].files[i] = "processing"]
  /\ UNCHANGED <<credits, balance, credit_transactions, receipts,
                 payment_logs, job_queue, memory, pc, req, loc, resp, nreq,
                 env, client>>

\* process(...) returns an output_ref or a ProcessingError
FinishTask(j, i, ok) ==
  /\ batch_jobs[j].status = "running"
  /\ i \in TasksIn(batch_jobs[j].files, {"processing"})
  /\ batch_jobs' = [batch_jobs EXCEPT
                      ![j].files[i] = IF ok THEN "completed" ELSE "failed"]
  /\ UNCHANGED <<credits, balance, credit_transactions, receipts,
                 payment_logs, job_queue, memory, pc, req, loc, resp, nreq,
                 env, client>>

\* a Running job is cancelled: the tasks not yet started are marked
\* failed(cancelled), the tasks in flight are left to finish
Cancel(j) ==
  /\ batch_jobs[j].status = "running"
  /\ TasksIn(batch_jobs[j].files, {"pending"}) # {}
  /\ batch_jobs' = [batch_jobs EXCEPT
                      ![j].files = [i \in DOMAIN @ |->
                                      IF @[i] = "pending" THEN "cancelled"
                                      ELSE @[i]]]
  /\ UNCHANGED <<credits, balance, credit_transactions, receipts,
                 payment_logs, job_queue, memory, pc, req, loc, resp, nreq,
                 env, client>>

\* all tasks terminal: reconcile(job_id, reserved, actual, job_id) credits the
\* difference back, and the job takes its final state
Reconcile(j) ==
  /\ batch_jobs[j].status = "running"
  /\ TasksIn(batch_jobs[j].files, TaskTerminal) = DOMAIN batch_jobs[j].files
  /\ LET job == batch_jobs[j]
         u == job.user_id
     IN
     /\ balance' = [balance EXCEPT ![u] = @ + Refund(job)]
     /\ credit_transactions' =
          IF Refund(job) > 0
          THEN Append(credit_transactions, Transaction(u, Refund(job), ""))
          ELSE credit_transactions
     /\ batch_jobs' = [batch_jobs EXCEPT ![j].status = FinalState(job.files)]
  /\ UNCHANGED <<credits, receipts, payment_logs, job_queue, memory, pc, req,
                 loc, resp, nreq, env, client>>

Worker ==
  \/ StartJob
  \/ \E j \in Jobs :
       \/ StartTask(j)
       \/ \E i \in DOMAIN batch_jobs[j].files, ok \in BOOLEAN :
            FinishTask(j, i, ok)
       \/ Cancel(j)
       \/ Reconcile(j)

\* two files at 2 credits each, and one file at 1 credit
WorkerRequests ==
  {BatchReq(TRUE, "u1", "convert", 2)}

NextWorker ==
  \/ \E h \in Handlers :
       \/ \E r \in WorkerRequests : BatchPost(h, r)
       \/ BpSelectBalance(h)
       \/ BpInsertJob(h)
       \/ BpDeductCredits(h)
       \/ BpEnqueue(h)
  \/ Worker

SpecWorker == Start(Environment(MaxReqs - 1, FALSE)) /\ [][NextWorker]_vars

\* the per-unit cost of every completed file of the jobs
RECURSIVE CompletedCost(_)
CompletedCost(jobs) ==
  IF jobs = <<>> THEN 0
  ELSE UnitCost(Head(jobs))
         * Cardinality(TasksIn(Head(jobs).files, {"completed"}))
       + CompletedCost(Tail(jobs))

\* every submission answered and every job reconciled
Settled ==
  /\ \A h \in Handlers : Idle(h)
  /\ \A j \in Jobs : batch_jobs[j].status \in JobTerminal

\* C25: once the file tasks of an account's jobs are all terminal and the jobs
\* reconciled, the account has been charged c*k for each job (per-unit cost c,
\* k files completed): what was reserved for the n-k other files is refunded.
C25_NetCharge ==
  \A u \in Users :
    (Settled /\ batch_jobs # <<>>)
      => InitBalance - balance[u]
           = CompletedCost(SelectSeq(batch_jobs, LAMBDA job : job.user_id = u))

\* the jobs are processed while the database may refuse a query
SpecWorkerFaulty == Start(Environment(MaxReqs - 2, TRUE)) /\ [][NextWorker]_vars

\* job j is in job_queue
Queued(j) == \E q \in DOMAIN job_queue : job_queue[q] = j

\* the handler that inserted job j has not yet reached the end of POST
Submitting(j) ==
  \E h \in Handlers : pc[h] \in {"bp_deduct", "bp_queue"} /\ loc[h].job = j

\* C26: every batch job reaches a terminal state: a job still pending is
\* queued for processing, or its submission is about to queue it (a pending
\* job that is neither is never taken up, so never becomes terminal).
C26_PendingJobsAreQueued ==
  \A j \in Jobs :
    batch_jobs[j].status = "pending" => Queued(j) \/ Submitting(j)

\* the step cancels job j: some of its tasks become failed(cancelled)
Cancels(j) ==
  TasksIn(batch_jobs'[j].files, {"cancelled"})
    # TasksIn(batch_jobs[j].files, {"cancelled"})

\* the step reconciles job j: it goes from Running to a terminal state
Reconciles(j) ==
  batch_jobs[j].status = "running" /\ batch_jobs'[j].status \in JobTerminal

C31_ChargedOrNothing ==
  \A h \in Handlers :
    Answered(h, "batch") =>
      /\ resp[h].status = 200 => loc[h].charged
      /\ ~loc[h].charged =>
           /\ resp[h].status # 200
           /\ loc[h].job = 0
           /\ \A q \in DOMAIN job_queue : job_queue[q] # loc[h].job

\* C32: a storage write that fails while a completed payment is handled makes
\* the webhook answer outside 2xx: a completed payment of a known user and
\* plan, handled alone and answered 2xx, has all four of its rows written
\* (the balance, the ledger row, the receipt and the audit row).
C32_FailedWriteIsReported ==
  \A h \in Handlers :
    ( /\ nreq = 1
      /\ Answered(h, "webhook") /\ KnownPlan(req[h])
      /\ resp[h].status \in 200..299 ) =>
      /\ credits[req[h].user]
           = DEFAULT_CREDITS + CREDIT_PACKAGES[req[h].plan]
      /\ TransactionsOf(req[h].cap) # {}
      /\ ReceiptsOf(req[h].cap) # {}
      /\ PaymentLogsOf(req[h].cap, "completed") # {}

\* a purchase of 100 credits, and submissions of 9 and of 3 credits
ColumnRequests ==
  {WebhookReq(TRUE, "ok", Completed, "u1", "STARTER_PLAN", "cap1"),
   BatchReq(TRUE, "u1", "ocr", 3), BatchReq(TRUE, "u1", "ocr", 1)}

NextColumns ==
  \E h \in Handlers :
    \/ \E r \in ColumnRequests : WebhookPost(h, r)
    \/ WhSelectCredits(h)
    \/ WhUpsertCredits(h)
    \/ WhInsertTransaction(h)
    \/ WhInsertReceipt(h)
    \/ WhInsertPaymentLog(h)
    \/ \E r \in ColumnRequests : BatchPost(h, r)
    \/ BpSelectBalance(h)
    \/ BpInsertJob(h)
    \/ BpDeductCredits(h)
    \/ BpEnqueue(h)

SpecColumns == Init /\ [][NextColumns]_vars

\* C33: the funds check of a batch submission sees the credits a completed
\* webhook has granted: a submission is refused for insufficient credits only
\* if its cost is above what the webhook's field of user_credits holds for
\* the user at that moment.
C33_GrantedCreditsAreSeen ==
  [][\A h \in Handlers :
       ( /\ pc[h] = "bp_select" /\ pc'[h] = "done"
         /\ resp'[h].status = 402 ) =>
         loc[h].cost.v > credits[AccountOf(req[h])]]_vars

\* C34: every entry of rateLimitMap has a count from 1 to RATE_LIMIT; a call
\* of checkRateLimit that is denied leaves the entry of its identity as it
\* was, and a call that is allowed inside the window of an entry adds exactly
\* 1 to its count and keeps its resetAt.
C34_EntryDiscipline ==
  [][/\ \A u \in DOMAIN rateLimitMap' :
          rateLimitMap'[u].count \in 1..RATE_LIMIT
     /\ \A u \in DOMAIN rateLimitMap :
          (tally'[u] # tally[u]) =>
            /\ Refused(u) => rateLimitMap'[u] = rateLimitMap[u]
            /\ (~Refused(u) /\ now <= rateLimitMap[u].resetAt) =>
                 rateLimitMap'[u] =
                   [count |-> rateLimitMap[u].count + 1,
                    resetAt |-> rateLimitMap[u].resetAt]
    ]_vars

\* an entry has been counted up to the limit by allowed calls at a later time
\* than its opening call, and a call has then been denied
C34_Witness ==
  \E u \in DOMAIN rateLimitMap :
    /\ rateLimitMap[u].count = RATE_LIMIT
    /\ tally[u].denied > 0
    /\ now > tally[u].anchor

\* the calls of checkRateLimit counted for u in its present window, and the
\* count of its entry
CallsOf(tl, u) == IF u \in DOMAIN tl THEN tl[u].allowed + tl[u].denied ELSE 0
CountOf(map, u) == IF u \in DOMAIN map THEN map[u].count ELSE 0

\* the step is the arrival of a deduction request at handler h that went
\* through the checks in the order authentication, rate limit, validation
InOrder(h) ==
  /\ Idle(h) /\ pc'[h] # "idle" /\ req'[h].kind = "deduct"
  /\ IF ~req'[h].auth
     THEN /\ pc'[h] = "done" /\ resp'[h].status = 401
          /\ rateLimitMap' = rateLimitMap /\ tally' = tally
     ELSE LET u == req'[h].user
          IN
          /\ CallsOf(tally', u) = CallsOf(tally, u) + 1
          /\ IF pc'[h] = "done" /\ resp'[h].status = 429
             THEN rateLimitMap' = rateLimitMap
             ELSE /\ CountOf(rateLimitMap', u) = CountOf(rateLimitMap, u) + 1
                  /\ \/ pc'[h] = "done" /\ resp'[h].status = 400
                     \/ pc'[h] = "dd_call"

\* C35: the deduction endpoint checks authentication, then the rate limit,
\* then the amount, then deducts: a request refused for its token leaves the
\* limiter untouched, every authenticated request is one call of
\* checkRateLimit and, unless that call refuses it, takes one unit of the
\* window whether its amount is then refused or not; the deduction itself,
\* refused for insufficient credits or not, gives no unit back.
C35_CheckOrder ==
  [][/\ nreq' = nreq + 1 => \E h \in Handlers : InOrder(h)
     /\ nreq' = nreq => rateLimitMap' = rateLimitMap
    ]_vars

\* a request with an invalid amount and one refused for insufficient credits
\* have each taken a unit of the window
C35_Witness ==
  \E h, g \in Handlers :
    /\ Answered(h, "deduct") /\ resp[h].status = 400
    /\ Answered(g, "deduct") /\ resp[g].status = 402
    /\ req[h].user = req[g].user
    /\ rateLimitMap[req[h].user].count = 2
    /\ nreq = 3

\* two users submit, and each asks for the list and for job 1
StatusRequests ==
  {BatchReq(TRUE, "u1", "merge", 1), BatchReq(TRUE, "u2", "merge", 1),
   BatchGetReq(TRUE, "u1", "list", Num(0)),
   BatchGetReq(TRUE, "u2", "list", Num(0)),
   BatchGetReq(TRUE, "u1", "one", Num(1)),
   BatchGetReq(TRUE, "u2", "one", Num(1)),
   BatchGetReq(TRUE, "u1", "operations", Num(0)),
   BatchGetReq(FALSE, "", "one", Num(1))}

NextStatus ==
  \E h \in Handlers :
    \/ \E r \in StatusRequests : BatchPost(h, r)
    \/ BpSelectBalance(h)
    \/ BpInsertJob(h)
    \/ BpDeductCredits(h)
    \/ BpEnqueue(h)
    \/ \E r \in StatusRequests : BatchGet(h, r)
    \/ BgSelect(h)

SpecStatus == Init /\ [][NextStatus]_vars

\* C36: the status endpoint gives a job to its owner only: every job a GET
\* returns, by id or in the list, has the user of the token as its user_id,
\* and a GET by id that is not answered with the job is answered 404.
C36_OwnerOnly ==
  \A h \in Handlers :
    Answered(h, "jobs") =>
      /\ \A j \in resp[h].jobs :
           j \in DOMAIN batch_jobs /\ batch_jobs[j].user_id = req[h].user
      /\ (req[h].auth /\ req[h].shape = "one" /\ resp[h].jobs = {}) =>
           resp[h].status = 404

\* a user has asked for a job of another user and got 404, while the owner
\* is given the job
C36_Witness ==
  \E h, g \in Handlers :
    /\ Answered(h, "jobs") /\ req[h].shape = "one" /\ req[h].auth
    /\ req[h].amount.v \in DOMAIN batch_jobs
    /\ batch_jobs[req[h].amount.v].user_id # req[h].user
    /\ resp[h].status = 404
    /\ Answered(g, "jobs") /\ req[g].shape = "one"
    /\ resp[g].jobs = {req[h].amount.v}

(***************************************************************************)
(* components/BatchPDFProcessor.tsx                                        *)
(***************************************************************************)
\* for (let progress = 0; progress <= 100; progress += 20)
ProgressStep == 20
ProgressMax == 100

\* the ids of a list of files, in order
IdsOf(fs) == [k \in DOMAIN fs |-> fs[k].id]

\* the file of the list with the id, if any
Listed(fs, id) == \E k \in DOMAIN fs : fs[k].id = id

\* prev.map(f => f.id === file.id ? {...f, status, progress} : f)
WithStatusAndProgress(fs, id, status, progress) ==
  [k \in DOMAIN fs |->
     IF fs[k].id = id
     THEN [fs[k] EXCEPT !.status = status, !.progress = progress]
     ELSE fs[k]]

\* prev.map(f => f.id === file.id ? {...f, progress} : f)
WithProgress(fs, id, progress) ==
  [k \in DOMAIN fs |->
     IF fs[k].id = id THEN [fs[k] EXCEPT !.progress = progress] ELSE fs[k]]

\* (mutation: the catch leaves the file as it is)
WithErrorDropped(fs, id) == fs

\* prev.map(f => f.id === file.id ? {...f, status: 'error', error} : f)
WithError(fs, id) ==
  [k \in DOMAIN fs |->
     IF fs[k].id = id THEN [fs[k] EXCEPT !.status = "error"] ELSE fs[k]]

\* the Process button: rendered while files.length > 0, disabled while
\* isProcessing
CanProcess(p) == ~p.isProcessing /\ p.files # <<>>

\* the remove button of a file: rendered unless the file is processing
CanRemove(f) == f.status # "processing"

\* addFiles([file]): the file is appended as pending with a fresh id
AddFiles ==
  /\ processor.added < MaxFiles
  /\ processor' =
       [processor EXCEPT
          !.added = @ + 1,
          !.files = Append(@, [id |-> processor.added + 1,
                               status |-> "pending", progress |-> 0])]
  /\ UNCHANGED <<server, boundary>>

\* removeFile(id): prev.filter(f => f.id !== id)
RemoveFile(id) ==
  /\ \E k \in DOMAIN processor.files :
       processor.files[k].id = id /\ CanRemove(processor.files[k])
  /\ processor' =
       [processor EXCEPT !.files = SelectSeq(@, LAMBDA f : f.id # id)]
  /\ UNCHANGED <<server, boundary>>

\* clearAll: setFiles([]); its button is rendered while files.length > 0
ClearAll ==
  /\ processor.files # <<>>
  /\ processor' = [processor EXCEPT !.files = <<>>]
  /\ UNCHANGED <<server, boundary>>

\* processFiles up to its first await: setIsProcessing(true), results = [],
\* and the first file of the `files` of this render is marked processing.
\* The run keeps that `files` (snapshot)
ProcessFiles ==
  /\ CanProcess(processor)
  /\ processor.started < MaxRuns
  /\ LET snapshot == IdsOf(processor.files)
     IN processor' =
          [processor EXCEPT
             !.isProcessing = TRUE,
             !.started = @ + 1,
             !.files = WithStatusAndProgress(@, snapshot[1], "processing", 0),
             !.runs = Append(@, [no |-> processor.started + 1,
                                 snapshot |-> snapshot, i |-> 1,
                                 progress |-> 0, results |-> <<>>])]
  /\ UNCHANGED <<server, boundary>>

\* the setTimeout of run k resolves: the progress is written; after the last
\* one the file is completed (or, URL.createObjectURL throwing, is in error),
\* and the run goes on to the next file of its snapshot or, after the last
\* one, calls setIsProcessing(false) and onProcessComplete(results)
Timeout(k) ==
  /\ k \in DOMAIN processor.runs
  /\ LET r == processor.runs[k]
         id == r.snapshot[r.i]
         shown == WithProgress(processor.files, id, r.progress)
     IN
     IF r.progress < ProgressMax
     THEN processor' =
            [processor EXCEPT
               !.files = shown,
               !.runs[k].progress = r.progress + ProgressStep]
     ELSE \E ok \in BOOLEAN :
       LET ended == IF ok
                    THEN WithStatusAndProgress(shown, id, "completed",
                                               ProgressMax)
                    ELSE WithError(shown, id)
           results == IF ok THEN Append(r.results, id) ELSE r.results
       IN
       IF r.i < Len(r.snapshot)
       THEN processor' =
              [processor EXCEPT
                 !.files = WithStatusAndProgress(ended, r.snapshot[r.i + 1],
                                                 "processing", 0),
                 !.runs[k] = [r EXCEPT !.i = r.i + 1, !.progress = 0,
                                       !.results = results]]
       ELSE processor' =
              [processor EXCEPT
                 !.files = ended,
                 !.isProcessing = FALSE,
                 !.runs = SelectSeq(@, LAMBDA q : q.no # r.no),
                 !.completions = Append(@, [no |-> r.no,
                                            results |-> results])]
  /\ UNCHANGED <<server, boundary>>

NextProcessor ==
  \/ AddFiles
  \/ \E id \in 1..MaxFiles : RemoveFile(id)
  \/ ClearAll
  \/ ProcessFiles
  \/ \E k \in 1..MaxRuns : Timeout(k)

SpecProcessor == Init /\ [][NextProcessor]_vars

\* the files of the list that are in the status
FilesIn(status) ==
  {k \in DOMAIN processor.files : processor.files[k].status = status}

\* the moves of a file's status: pending to processing, processing to
\* completed or to error
StatusMoves ==
  {<<"pending", "processing">>, <<"processing", "completed">>,
   <<"processing", "error">>}

\* C37: at most one file of the BatchPDFProcessor is processing and at most
\* one call of processFiles is running at any time; the status of a file
\* stays or moves from pending to processing and from processing to completed
\* or error, and while a run goes on the progress of a file never goes down.
C37_OneAtATime ==
  [][/\ Cardinality(FilesIn("processing")) <= 1
     /\ Len(processor.runs) <= 1
     /\ \A k \in DOMAIN processor.files, m \in DOMAIN processor'.files :
          processor.files[k].id = processor'.files[m].id =>
            /\ \/ processor'.files[m].status = processor.files[k].status
               \/ <<processor.files[k].status, processor'.files[m].status>>
                    \in StatusMoves
            /\ processor.runs # <<>> =>
                 processor'.files[m].progress >= processor.files[k].progress
    ]_vars

\* the timers of processFiles fire: an awaited setTimeout resolves
SpecProcessorFair ==
  Init /\ [][NextProcessor]_vars /\ WF_vars(\E k \in 1..MaxRuns : Timeout(k))

\* the step is the call of onProcessComplete that ends a run
Completes ==
  Len(processor'.completions) = Len(processor.completions) + 1

\* the files of the list after the step that the ending run had taken
Taken(run) ==
  {m \in DOMAIN processor'.files :
     \E i \in DOMAIN run.snapshot : run.snapshot[i] = processor'.files[m].id}

\* C38: a call of processFiles ends: isProcessing goes back to false, and
\* onProcessComplete is called once for the run, with one result for each of
\* its files that is completed and none for a file in error; a file in error
\* does not keep the files after it from being processed.
C38_RunEnds ==
  /\ [][Completes =>
          LET run == processor.runs[1]
              results == processor'.completions[Len(processor'.completions)]
                           .results
          IN
          /\ processor.isProcessing /\ ~processor'.isProcessing
          /\ processor'.runs = <<>>
          /\ \A c \in DOMAIN processor.completions :
               processor.completions[c].no # run.no
          /\ \A a, b \in DOMAIN results : results[a] = results[b] => a = b
          /\ \A m \in Taken(run) :
               /\ processor'.files[m].status \in {"completed", "error"}
               /\ processor'.files[m].status = "completed"
                    <=> \E a \in DOMAIN results :
                          results[a] = processor'.files[m].id
     ]_vars
  /\ (processor.isProcessing ~> ~processor.isProcessing)

\* a run of two files has ended with the first in error and the second
\* completed, and has passed on one result
C38_Witness ==
  /\ ~processor.isProcessing
  /\ Len(processor.files) = 2
  /\ processor.files[1].status = "error"
  /\ processor.files[2].status = "completed"
  /\ processor.completions # <<>>
  /\ processor.completions[1].results = <<processor.files[2].id>>

\* C39: with removeFile, clearAll and addFiles between the steps of a running
\* processFiles, the results passed to onProcessComplete are files that are
\* in the list when the run ends, and a run works only on files that are in
\* the list: a file that was removed is not processed afterwards.
C39_RemovedStaysOut ==
  [][/\ Completes =>
          LET results == processor'.completions[Len(processor'.completions)]
                           .results
          IN \A a \in DOMAIN results : Listed(processor'.files, results[a])
     /\ \A k \in DOMAIN processor.runs :
          (k \in DOMAIN processor'.runs
             /\ processor'.runs[k] # processor.runs[k]) =>
            Listed(processor.files,
                   processor.runs[k].snapshot[processor.runs[k].i])
    ]_vars

(***************************************************************************)
(* unnamed/part_000: the ErrorBoundary component                           *)
(***************************************************************************)
\* the errors a child may throw while rendering, by their message
ChildErrors == {"TypeError", "RangeError"}

\* (mutation: render() looks at errorInfo, not at hasError)
RenderByErrorInfo(state) ==
  IF state.errorInfo # "" THEN "fallback" ELSE "children"

\* render(): the fallback if this.state.hasError, else this.props.children
Render(state) == IF state.hasError THEN "fallback" ELSE "children"

\* a child throws while it renders: getDerivedStateFromError(error) gives the
\* state to render with
GetDerivedStateFromError(error) ==
  /\ boundary.shown = "children" /\ ~boundary.committing
  /\ boundary.caught < MaxErrors
  /\ LET state == [hasError |-> TRUE, error |-> error, errorInfo |-> ""]
     IN boundary' = [boundary EXCEPT !.state = state,
                                     !.shown = Render(state),
                                     !.committing = TRUE,
                                     !.caught = @ + 1]
  /\ UNCHANGED <<server, processor>>

\* componentDidCatch(error, errorInfo): setState({error, errorInfo}), then
\* reportError(error, errorInfo) up to its await fetch(...)
ComponentDidCatch ==
  /\ boundary.committing
  /\ LET state == [boundary.state EXCEPT !.errorInfo = "componentStack"]
     IN boundary' = [boundary EXCEPT
                       !.state = state,
                       !.shown = Render(state),
                       !.committing = FALSE,
                       !.reports = Append(@, boundary.state.error)]
  /\ UNCHANGED <<server, processor>>

\* the fetch of a report resolves or rejects; the rejection is caught and
\* logged inside reportError
ReportSettles(k, ok) ==
  /\ k \in DOMAIN boundary.reports
  /\ boundary' =
       [boundary EXCEPT
          !.reports = [j \in 1..(Len(@) - 1) |->
                         IF j < k THEN @[j] ELSE @[j + 1]],
          !.failed = IF ok THEN @ ELSE @ + 1]
  /\ UNCHANGED <<server, processor>>

\* handleReset, the Try Again button of the fallback
HandleReset ==
  /\ boundary.shown = "fallback" /\ ~boundary.committing
  /\ LET state == [hasError |-> FALSE, error |-> "", errorInfo |-> ""]
     IN boundary' = [boundary EXCEPT !.state = state,
                                     !.shown = Render(state)]
  /\ UNCHANGED <<server, processor>>

NextBoundary ==
  \/ \E error \in ChildErrors : GetDerivedStateFromError(error)
  \/ ComponentDidCatch
  \/ \E k \in 1..MaxErrors, ok \in BOOLEAN : ReportSettles(k, ok)
  \/ HandleReset

SpecBoundary == Init /\ [][NextBoundary]_vars

\* C40: the ErrorBoundary shows its fallback exactly while hasError is true;
\* hasError turns true only in a step that catches a child's error, and turns
\* false only in a step that leaves exactly the initial state (hasError
\* false, error null, errorInfo null) without catching or reporting anything,
\* which is handleReset; a report that settles, failed or not, changes
\* neither the state nor what is shown, and is caught by reportError itself
C40_FallbackWhileHasError ==
  [][ /\ (boundary'.shown = "fallback") <=> boundary'.state.hasError
      /\ (~boundary.state.hasError /\ boundary'.state.hasError)
           => boundary'.caught = boundary.caught + 1
      /\ (boundary.state.hasError /\ ~boundary'.state.hasError)
           => /\ boundary'.state = InitialState
              /\ boundary'.caught = boundary.caught
              /\ boundary'.reports = boundary.reports
              /\ boundary'.failed = boundary.failed
      /\ Len(boundary'.reports) < Len(boundary.reports)
           => /\ boundary'.state = boundary.state
              /\ boundary'.shown = boundary.shown
              /\ boundary'.caught = boundary.caught
              /\ boundary'.failed \in {boundary.failed, boundary.failed + 1}
    ]_vars

\* a report has failed while the fallback of a later error is shown, after
\* an earlier reset
C40_Witness ==
  /\ boundary.failed > 0
  /\ boundary.caught > 1
  /\ boundary.state.hasError
  /\ boundary.shown = "fallback"
  /\ boundary.state.errorInfo # ""

====
